---- MODULE Spec2Model ----
(***************************************************************************)
(* Model of the chat load tester (src/main.py): the orchestrator thread    *)
(* (main, run_load_test, save_results), the session workers                *)
(* (run_chat_session and the browser steps it calls) and the results       *)
(* queue they share.  The remote browser is the environment: each browser  *)
(* operation either returns or raises, chosen nondeterministically.        *)
(***************************************************************************)
EXTENDS Integers, Sequences, FiniteSets, TLC

\* ------------------------------------------------------------------ bounds
\* config.num_sessions of the run that is explored.
NumSessions == 2
\* Largest number of whole seconds that may pass at one reading of the clock.
MaxTick == 1
\* Largest session identifier a prompt is selected for on its own.
MaxSelect == 6

\* ---------------------------------------------------------- program values
\* range(12) of login's polling loop.
LoginPolls == 12

\* None, and a present value: a nullable field is a sequence of length <= 1.
None == <<>>
Some(v) == <<v>>

\* The threads of the run, by their place in run_load_test's list.
Workers == 1..NumSessions

\* The prompt list the explored run has loaded from test_prompts.json.
PromptLists == {<<"A", "B">>}

\* config.file_path values: not configured, or a file to upload.  The run
\* that is explored has one configured: its upload step can return True or
\* False, and without a file it can only return True.
FilePaths == {None, Some("doc.pdf")}

VARIABLES
    test_prompts,   \* self.test_prompts
    file_path,      \* self.config.file_path
    results_queue,  \* self.results_queue: FIFO of records
    now,            \* wall clock, whole seconds
    disk,           \* report files: set of [name, content]
    mpc,            \* orchestrator thread: position in main / run_load_test
    caller,         \* which caller's save_results is running
    launched,       \* i of the launch loop: threads started so far
    joined,         \* threads joined so far
    results,        \* save_results' local list
    saves,          \* number of save_results calls begun
    writes,         \* number of report files opened for writing
    intr,           \* where KeyboardInterrupt was raised, "none" if not
    session_id,     \* per thread: the argument it was started with
    wpc,            \* per worker: position in run_chat_session
    driver,         \* per worker: the local driver is not None
    pending,        \* per worker: the dict about to be put (success path)
    exc,            \* per worker: the exception caught at line 320
    quits,          \* per worker: number of driver.quit() calls
    fault,          \* history, per worker: the first failure it met
    appended,       \* history: every record put, in order
    drained,        \* history: every record got from the queue, in order
    atDrain,        \* history: records appended when the last save began
    reports,        \* history: what each save_results call wrote, in order
    launchedAt,     \* history, per thread: the clock when it was started
    trace,          \* history, per worker: the steps it has taken, in order
    call,           \* a function called on its own: its name and arguments
    ret             \* what that call returned

vars == <<test_prompts, file_path, results_queue, now, disk, mpc, caller,
          launched, joined, results, saves, writes, intr, session_id,
          wpc, driver,
          pending, exc, quits, fault, appended, drained, atDrain,
          reports, launchedAt, trace, call, ret>>

orchVars == <<mpc, caller, launched, joined, results, saves, writes, intr>>
workerVars == <<session_id, wpc, driver, pending, exc, quits, fault, trace>>
histVars == <<appended, drained, atDrain, reports, launchedAt>>
configVars == <<test_prompts, file_path, call, ret>>

\* ------------------------------------------------------------ login (98-144)
\* What the browser does during one login: pre = every step before the
\* polling loop returns (get, wait for the email field, send_keys, click);
\* okAt = the first poll at which the landing-page condition is true (0 if
\* never); throwing = the polls before that raise instead of evaluating false.
LoginOutcomes == [pre : BOOLEAN, okAt : 0..LoginPolls, throwing : BOOLEAN]

\* One evaluation of line 133 at poll k.
PollAt(o, k) ==
    IF o.okAt = k THEN "true" ELSE IF o.throwing THEN "raise" ELSE "false"

\* The loop of lines 131-138 from poll k on, with the sleeps done so far.
RECURSIVE LoginLoop(_, _, _)
LoginLoop(o, k, sleeps) ==
    IF k > LoginPolls
    THEN [ret |-> FALSE, polls |-> LoginPolls, sleeps |-> sleeps]
    ELSE IF PollAt(o, k) = "true"
         THEN [ret |-> TRUE, polls |-> k, sleeps |-> sleeps]
         ELSE IF PollAt(o, k) = "raise"
              THEN LoginLoop(o, k + 1, sleeps + 1)
              ELSE LoginLoop(o, k + 1, sleeps)

\* Variant of Login: the loop has no early return, every poll is made.
LoginAllPolls(o) ==
    IF ~o.pre
    THEN [ret |-> FALSE, polls |-> 0, sleeps |-> 0]
    ELSE [ret |-> o.okAt >= 1, polls |-> LoginPolls,
          sleeps |-> IF o.throwing THEN LoginPolls - 1 ELSE 0]

Login(o) ==
    IF ~o.pre
    THEN [ret |-> FALSE, polls |-> 0, sleeps |-> 0]
    ELSE LoginLoop(o, 1, 0)

\* ---------------------------------------------------- upload_file (250-284)
\* found = the file input and the upload-success marker both appear in time.
UploadOutcomes == [found : BOOLEAN]

\* touched = the browser was used.
UploadFile(path, o) ==
    IF path = None
    THEN [ret |-> TRUE, touched |-> FALSE]
    ELSE [ret |-> o.found, touched |-> TRUE]

\* ------------------------------------------------ check_for_errors (146-185)
\* What the page shows when it is inspected.
Pages == {"clean", "banner", "broken"}

CheckForErrors(page) ==
    CASE page = "clean"  -> <<>>
      [] page = "banner" -> <<"UI Error: banner">>
      [] page = "broken" -> <<"Error checking for errors: WebDriverException">>

\* -------------------------------------------- send_prompt_and_wait (187-248)
\* stage = the statement of the try block that raises ("ok": none does):
\*   "input"   the wait for the input box times out (line 214)
\*   "send"    clear / send_keys / find_element raises before the click
\*   "timeout" the response is not detected within response_timeout (line 234)
\*   "read"    reading the response raises (line 237)
\* tInput = seconds spent locating the input box, tResp = seconds from the
\* click to the detection of the response.
\* value = what get_attribute("value") answers for the second element of
\* class question-input: its text, or None for an element without a value
\* (response_received compares it with "" only, and None != "" is true).
Stages == {"input", "send", "timeout", "read", "ok"}
Values == {None, Some("reply")}
SendOutcomes ==
    [stage : Stages, page : Pages, tInput : 0..1, tResp : 1..2, value : Values]

ExcText(stage) ==
    CASE stage = "input"   -> "Error sending prompt: TimeoutException"
      [] stage = "send"    -> "Error sending prompt: WebDriverException"
      [] stage = "timeout" -> "Error sending prompt: TimeoutException"
      [] stage = "read"    -> "Error sending prompt: IndexError"

\* The clock reading the latency is measured from (line 211), as an offset
\* from the entry of send_prompt_and_wait.
StartTime(o) == 0

\* Variant of SendPromptAndWait: a response that is not detected in time is
\* asked for a second time, and the time spent is recorded all the same.
SendPromptAndWaitRetry(prompt, o) ==
    IF o.stage = "timeout"
    THEN [result |-> [prompt |-> Some(prompt), response |-> None,
                      errors |-> CheckForErrors(o.page) \o <<ExcText(o.stage)>>
                                    \o CheckForErrors(o.page),
                      response_time |-> Some(o.tInput + o.tResp)],
          clicks |-> 2]
    ELSE [result |-> [prompt |-> Some(prompt), response |-> Some("reply"),
                      errors |-> <<>>, response_time |-> Some(o.tResp)],
          clicks |-> 1]

\* result: the dict returned; clicks: how often the send button was clicked.
SendPromptAndWait(prompt, o) ==
    LET pre    == IF o.stage = "input" THEN <<>> ELSE CheckForErrors(o.page)
        sent   == o.stage \in {"timeout", "read", "ok"}
        detect == o.tInput + o.tResp
    IN  IF o.stage = "ok"
        THEN [result |-> [prompt |-> Some(prompt),
                          response |-> o.value,
                          errors |-> pre \o CheckForErrors(o.page),
                          response_time |-> Some(detect - StartTime(o))],
              clicks |-> 1]
        ELSE [result |-> [prompt |-> Some(prompt),
                          response |-> None,
                          errors |-> pre \o <<ExcText(o.stage)>>
                                        \o CheckForErrors(o.page),
                          response_time |-> None],
              clicks |-> IF sent THEN 1 ELSE 0]

\* ------------------------------------------------ run_chat_session (286-333)
\* Line 310: Python lists are indexed from 0, sequences from 1.  An empty
\* list makes the modulo raise ZeroDivisionError.
\* Variant of SelectIndex: the identifier is shifted to start from 0.
SelectIndexShifted(sid, n) == (sid - 1) % n
SelectIndex(sid, n) == sid % n
SelectPrompt(prompts, sid) ==
    prompts[SelectIndex(sid, Len(prompts)) + 1]

\* Lines 314-318: the dict put on the success path.  The 'timestamp' entry
\* (datetime.now().isoformat(), never read again by the program) is left out
\* of both dicts.
NormalRecord(sid, result) ==
    [session_id |-> sid, prompt |-> result.prompt,
     response |-> result.response, errors |-> result.errors,
     response_time |-> result.response_time]

\* Lines 323-330: the dict put by the except handler.
DegradedRecord(sid, e) ==
    [session_id |-> sid, errors |-> <<e>>,
     prompt |-> None, response |-> None, response_time |-> None]

\* Line 322: the handler puts a record only if the browser was acquired.
HandlerPuts(drv) == drv
\* Variant of FinallyQuits: the browser is never quit.
FinallyNeverQuits(drv) == FALSE
\* Line 332: the finally block quits the browser only if it was acquired.
FinallyQuits(drv) == drv

\* The login outcomes explored by the concurrent run (a subset of
\* LoginOutcomes: the condition holds at the third poll or never).
RunLoginOutcomes == {o \in LoginOutcomes : o.okAt \in {0, 3}}

\* The send outcomes explored by the concurrent run (a subset of
\* SendOutcomes: one latency, a clean page, a response with text or none
\* in time).
RunSendOutcomes ==
    {o \in SendOutcomes : /\ o.tInput = 0 /\ o.tResp = 1 /\ o.page = "clean"
                          /\ o.stage \in {"ok", "timeout"}
                          /\ o.value = Some("reply")}

\* No function is being called on its own.
NoCall == [fn |-> "none"]

\* ------------------------------------------------------------------- Init
Init ==
    /\ test_prompts \in PromptLists
    /\ file_path = Some("doc.pdf")
    /\ results_queue = <<>>
    /\ now = 0
    /\ disk = {}
    /\ mpc = "launch"
    /\ caller = "run_load_test"
    /\ launched = 0
    /\ joined = 0
    /\ results = <<>>
    /\ saves = 0
    /\ writes = 0
    /\ intr = "none"
    /\ session_id = [w \in Workers |-> 0]
    /\ wpc = [w \in Workers |-> "idle"]
    /\ driver = [w \in Workers |-> FALSE]
    /\ pending = [w \in Workers |-> None]
    /\ exc = [w \in Workers |-> None]
    /\ quits = [w \in Workers |-> 0]
    /\ fault = [w \in Workers |-> "none"]
    /\ appended = <<>>
    /\ drained = <<>>
    /\ atDrain = <<>>
    /\ reports = <<>>
    /\ launchedAt = [w \in Workers |-> 0]
    /\ trace = [w \in Workers |-> <<>>]
    /\ call = NoCall
    /\ ret = None

\* ------------------------------------------------- worker: run_chat_session
\* The worker's step is added to its history.
Step(w, what) == trace' = [trace EXCEPT ![w] = Append(@, what)]

\* A daemon thread runs only while the process lives (thread.daemon = True,
\* line 363).
Running(w) == mpc # "exited"

Raise(w, e, what) ==
    /\ exc' = [exc EXCEPT ![w] = Some(e)]
    /\ fault' = [fault EXCEPT ![w] = what]
    /\ wpc' = [wpc EXCEPT ![w] = "except"]

\* Line 301: driver = self.setup_driver()
SetupDriver(w) ==
    /\ Running(w) /\ wpc[w] = "setup"
    /\ \E ok \in BOOLEAN :
         IF ok
         THEN /\ driver' = [driver EXCEPT ![w] = TRUE]
              /\ wpc' = [wpc EXCEPT ![w] = "login"]
              /\ Step(w, "setup_driver: returned")
              /\ UNCHANGED <<exc, fault>>
         ELSE /\ Raise(w, "WebDriverException", "setup")
              /\ Step(w, "setup_driver: raised")
              /\ UNCHANGED driver
    /\ UNCHANGED <<session_id, pending, quits, results_queue, now, disk>>
    /\ UNCHANGED <<orchVars, configVars, histVars>>

\* Variant of DoLogin: the result of login is not tested.
DoLoginIgnoresResult(w) ==
    /\ Running(w) /\ wpc[w] = "login"
    /\ \E o \in RunLoginOutcomes :
         /\ wpc' = [wpc EXCEPT ![w] = "upload"]
         /\ Step(w, IF Login(o).ret THEN "login: True" ELSE "login: False")
         /\ UNCHANGED <<exc, fault>>
    /\ UNCHANGED <<session_id, driver, pending, quits, results_queue, now, disk>>
    /\ UNCHANGED <<orchVars, configVars, histVars>>

\* Lines 303-304: if not self.login(driver): raise Exception("Login failed")
DoLogin(w) ==
    /\ Running(w) /\ wpc[w] = "login"
    /\ \E o \in RunLoginOutcomes :
         IF Login(o).ret
         THEN /\ wpc' = [wpc EXCEPT ![w] = "upload"]
              /\ Step(w, "login: True")
              /\ UNCHANGED <<exc, fault>>
         ELSE /\ Raise(w, "Login failed", "login")
              /\ Step(w, "login: False")
    /\ UNCHANGED <<session_id, driver, pending, quits, results_queue, now, disk>>
    /\ UNCHANGED <<orchVars, configVars, histVars>>

\* Lines 306-307: if not self.upload_file(driver): raise ...
DoUpload(w) ==
    /\ Running(w) /\ wpc[w] = "upload"
    /\ \E o \in UploadOutcomes :
         IF UploadFile(file_path, o).ret
         THEN /\ wpc' = [wpc EXCEPT ![w] = "send"]
              /\ Step(w, "upload_file: True")
              /\ UNCHANGED <<exc, fault>>
         ELSE /\ Raise(w, "File upload failed", "upload")
              /\ Step(w, "upload_file: False")
    /\ UNCHANGED <<session_id, driver, pending, quits, results_queue, now, disk>>
    /\ UNCHANGED <<orchVars, configVars, histVars>>

\* Lines 310-311: select the prompt, send it and wait for the response.
DoSend(w) ==
    /\ Running(w) /\ wpc[w] = "send"
    /\ IF Len(test_prompts) = 0
       THEN /\ Raise(w, "integer division or modulo by zero", "send")
            /\ UNCHANGED <<pending, trace>>
       ELSE \E o \in RunSendOutcomes :
              LET r == SendPromptAndWait(SelectPrompt(test_prompts, session_id[w]), o)
              IN  /\ pending' = [pending EXCEPT ![w] = Some(r.result)]
                  /\ fault' = [fault EXCEPT
                                 ![w] = IF o.stage = "ok" THEN @ ELSE "send"]
                  /\ wpc' = [wpc EXCEPT ![w] = "put"]
                  /\ trace' = [trace EXCEPT ![w] =
                                 @ \o [k \in 1..r.clicks |-> "send prompt"]]
                  /\ UNCHANGED exc
    /\ UNCHANGED <<session_id, driver, quits, results_queue, now, disk>>
    /\ UNCHANGED <<orchVars, configVars, histVars>>

\* Variant of PutResult: the shared list is replaced, not appended to.
PutResultOverwrite(w) ==
    /\ Running(w) /\ wpc[w] = "put"
    /\ LET rec == NormalRecord(session_id[w], pending[w][1])
       IN  /\ results_queue' = <<rec>>
           /\ appended' = Append(appended, rec)
    /\ pending' = [pending EXCEPT ![w] = None]
    /\ wpc' = [wpc EXCEPT ![w] = "finally"]
    /\ Step(w, "put")
    /\ UNCHANGED <<session_id, driver, exc, quits, fault, now, disk, drained, atDrain>>
    /\ UNCHANGED <<reports, launchedAt>>
    /\ UNCHANGED <<orchVars, configVars>>

\* Lines 314-318: self.results_queue.put({...}) on the success path.
PutResult(w) ==
    /\ Running(w) /\ wpc[w] = "put"
    /\ LET rec == NormalRecord(session_id[w], pending[w][1])
       IN  /\ results_queue' = Append(results_queue, rec)
           /\ appended' = Append(appended, rec)
    /\ pending' = [pending EXCEPT ![w] = None]
    /\ wpc' = [wpc EXCEPT ![w] = "finally"]
    /\ Step(w, "put")
    /\ UNCHANGED <<session_id, driver, exc, quits, fault, now, disk, drained, atDrain>>
    /\ UNCHANGED <<reports, launchedAt>>
    /\ UNCHANGED <<orchVars, configVars>>

\* Lines 320-330: except Exception as e.
Handler(w) ==
    /\ Running(w) /\ wpc[w] = "except"
    /\ IF HandlerPuts(driver[w])
       THEN LET rec == DegradedRecord(session_id[w], exc[w][1])
            IN  /\ results_queue' = Append(results_queue, rec)
                /\ appended' = Append(appended, rec)
                /\ Step(w, "put")
       ELSE UNCHANGED <<results_queue, appended, trace>>
    /\ exc' = [exc EXCEPT ![w] = None]
    /\ wpc' = [wpc EXCEPT ![w] = "finally"]
    /\ UNCHANGED <<session_id, driver, pending, quits, fault, now, disk, drained, atDrain>>
    /\ UNCHANGED <<reports, launchedAt>>
    /\ UNCHANGED <<orchVars, configVars>>

\* Lines 331-333: finally: if driver: driver.quit().  quit may raise; the
\* exception then ends the thread.
Finally(w) ==
    /\ Running(w) /\ wpc[w] = "finally"
    /\ IF FinallyQuits(driver[w])
       THEN /\ quits' = [quits EXCEPT ![w] = @ + 1]
            /\ Step(w, "quit")
            /\ \E raises \in BOOLEAN :
                 IF raises
                 THEN /\ wpc' = [wpc EXCEPT ![w] = "crashed"]
                      /\ fault' = [fault EXCEPT
                                     ![w] = IF @ = "none" THEN "quit" ELSE @]
                 ELSE /\ wpc' = [wpc EXCEPT ![w] = "done"]
                      /\ UNCHANGED fault
       ELSE /\ wpc' = [wpc EXCEPT ![w] = "done"]
            /\ UNCHANGED <<quits, fault, trace>>
    /\ UNCHANGED <<session_id, driver, pending, exc, results_queue, now, disk>>
    /\ UNCHANGED <<orchVars, configVars, histVars>>

Worker(w) ==
    \/ SetupDriver(w)
    \/ DoLogin(w)
    \/ DoUpload(w)
    \/ DoSend(w)
    \/ PutResult(w)
    \/ Handler(w)
    \/ Finally(w)

\* ------------------------------------------- orchestrator: run_load_test, main
\* Variant of SessionId: the loop index itself is passed, args=(i,).
SessionIdZeroBased(i) == i
\* Line 362: args=(i+1,), the session identifier of the i-th thread started.
SessionId(i) == i + 1

\* Variant of IsAlive: join returns at once, whatever the thread does.
IsAliveNever(w) == FALSE
\* Variant of IsAlive: join never sees the thread end.
IsAliveAlways(w) == TRUE
\* thread.join() returns once the thread has ended, normally or by an
\* exception that escaped run_chat_session.
IsAlive(w) == wpc[w] \notin {"done", "crashed"}

\* Line 346: the report's name holds the time to the second.
ReportName(t) == t

\* Lines 362-365: create the thread of the next session and start it.
Launch ==
    /\ mpc = "launch"
    /\ launched < NumSessions
    /\ session_id' = [session_id EXCEPT ![launched + 1] = SessionId(launched)]
    /\ wpc' = [wpc EXCEPT ![launched + 1] = "setup"]
    /\ launchedAt' = [launchedAt EXCEPT ![launched + 1] = now]
    /\ launched' = launched + 1
    /\ mpc' = "sleep"
    /\ UNCHANGED <<caller, joined, results, saves, writes, intr>>
    /\ UNCHANGED <<driver, pending, exc, quits, fault, trace>>
    /\ UNCHANGED <<results_queue, now, disk, configVars>>
    /\ UNCHANGED <<appended, drained, atDrain, reports>>

\* Variant of Stagger: no sleep between the launches.
StaggerNoSleep ==
    /\ mpc = "sleep"
    /\ now' = now
    /\ mpc' = IF launched < NumSessions THEN "launch" ELSE "join"
    /\ UNCHANGED <<caller, launched, joined, results, saves, writes, intr>>
    /\ UNCHANGED <<results_queue, disk, workerVars, configVars, histVars>>

\* Line 366: time.sleep(1), then the loop test of line 361.
Stagger ==
    /\ mpc = "sleep"
    /\ now' = now + 1
    /\ mpc' = IF launched < NumSessions THEN "launch" ELSE "join"
    /\ UNCHANGED <<caller, launched, joined, results, saves, writes, intr>>
    /\ UNCHANGED <<results_queue, disk, workerVars, configVars, histVars>>

\* Variant of Join: only the first thread is joined before save_results.
JoinFirstOnly ==
    /\ mpc = "join"
    /\ joined < launched
    /\ wpc[joined + 1] \in {"done", "crashed"}
    /\ joined' = joined + 1
    /\ mpc' = "save"
    /\ UNCHANGED <<caller, launched, results, saves, writes, intr>>
    /\ UNCHANGED <<results_queue, now, disk, workerVars, configVars, histVars>>

\* Lines 369-372: join the next thread; after the last, call save_results.
Join ==
    /\ mpc = "join"
    /\ joined < launched
    /\ ~IsAlive(joined + 1)
    /\ joined' = joined + 1
    /\ mpc' = IF joined + 1 = launched THEN "save" ELSE "join"
    /\ UNCHANGED <<caller, launched, results, saves, writes, intr>>
    /\ UNCHANGED <<results_queue, now, disk, workerVars, configVars, histVars>>

\* Lines 372 and 342: run_load_test enters save_results, results = [].
SaveBegin ==
    /\ mpc = "save"
    /\ results' = <<>>
    /\ saves' = saves + 1
    /\ atDrain' = appended
    /\ mpc' = "drain"
    /\ UNCHANGED <<caller, launched, joined, writes, intr>>
    /\ UNCHANGED <<results_queue, now, disk, workerVars, configVars>>
    /\ UNCHANGED <<appended, drained, reports, launchedAt>>

\* Variant of Drain: the record is read but left in the queue.
DrainPeek ==
    /\ mpc = "drain"
    /\ results_queue # <<>>
    /\ Len(results) < NumSessions
    /\ results' = Append(results, Head(results_queue))
    /\ drained' = Append(drained, Head(results_queue))
    /\ results_queue' = results_queue
    /\ UNCHANGED <<mpc, caller, launched, joined, saves, writes, intr>>
    /\ UNCHANGED <<now, disk, workerVars, configVars, appended, atDrain>>
    /\ UNCHANGED <<reports, launchedAt>>

\* Lines 343-344: empty() answers False and one record is taken by get().
Drain ==
    /\ mpc = "drain"
    /\ results_queue # <<>>
    /\ results' = Append(results, Head(results_queue))
    /\ drained' = Append(drained, Head(results_queue))
    /\ results_queue' = Tail(results_queue)
    /\ UNCHANGED <<mpc, caller, launched, joined, saves, writes, intr>>
    /\ UNCHANGED <<now, disk, workerVars, configVars, appended, atDrain>>
    /\ UNCHANGED <<reports, launchedAt>>

\* What a save_results call leaves in the history when it writes: content =
\* the list it wrote; queued = the records that were in the queue when the
\* call began; late = the number of records put since it began.
ReportEntry ==
    [content |-> results,
     queued |-> SubSeq(atDrain, Len(drained) - Len(results) + 1, Len(atDrain)),
     late |-> Len(appended) - Len(atDrain)]

\* Lines 343-349: empty() answers True, which ends the loop; name the report
\* by the clock and write it, replacing a file of the same name.  Then
\* return to the caller: run_load_test returns into main's finally block;
\* main's own call ends main and with it the process, and daemon threads
\* still running are abandoned where they are.
WriteReport ==
    /\ mpc = "drain"
    /\ results_queue = <<>>
    /\ \E d \in 0..MaxTick :
         /\ now' = now + d
         /\ disk' = {f \in disk : f.name # ReportName(now + d)}
                       \cup {[name |-> ReportName(now + d), content |-> results]}
    /\ writes' = writes + 1
    /\ reports' = Append(reports, ReportEntry)
    /\ mpc' = IF caller = "run_load_test" THEN "finally" ELSE "exited"
    /\ results' = <<>>
    /\ UNCHANGED <<caller, launched, joined, saves, intr>>
    /\ UNCHANGED <<results_queue, workerVars, configVars>>
    /\ UNCHANGED <<appended, drained, atDrain, launchedAt>>

\* Variant of Interrupt: no finally clause, the interrupt ends main.
InterruptEndsMain ==
    /\ intr = "none"
    /\ caller = "run_load_test"
    /\ mpc \in {"launch", "sleep", "join", "save", "drain"}
    /\ intr' = CASE mpc \in {"launch", "sleep"} -> "launch"
                 [] mpc = "join" -> "join"
                 [] OTHER -> "save"
    /\ mpc' = "exited"
    /\ results' = <<>>
    /\ UNCHANGED <<caller, launched, joined, saves, writes>>
    /\ UNCHANGED <<results_queue, now, disk, workerVars, configVars, histVars>>

\* Lines 395-396: KeyboardInterrupt reaches the main thread while it is in
\* run_load_test; main's except clause logs it and falls into finally.
Interrupt ==
    /\ intr = "none"
    /\ caller = "run_load_test"
    /\ mpc \in {"launch", "sleep", "join", "save", "drain"}
    /\ intr' = CASE mpc \in {"launch", "sleep"} -> "launch"
                 [] mpc = "join" -> "join"
                 [] OTHER -> "save"
    /\ mpc' = "finally"
    /\ results' = <<>>
    /\ UNCHANGED <<caller, launched, joined, saves, writes>>
    /\ UNCHANGED <<results_queue, now, disk, workerVars, configVars, histVars>>

\* Lines 397-398 and 342: finally: tester.save_results(), which is entered
\* with results = [].
MainFinally ==
    /\ mpc = "finally"
    /\ caller' = "main"
    /\ results' = <<>>
    /\ saves' = saves + 1
    /\ atDrain' = appended
    /\ mpc' = "drain"
    /\ UNCHANGED <<launched, joined, writes, intr>>
    /\ UNCHANGED <<results_queue, now, disk, workerVars, configVars>>
    /\ UNCHANGED <<appended, drained, reports, launchedAt>>

Next ==
    \/ Launch
    \/ Stagger
    \/ Join
    \/ SaveBegin
    \/ Drain
    \/ WriteReport
    \/ Interrupt
    \/ MainFinally
    \/ \E w \in Workers : Worker(w)

Spec == Init /\ [][Next]_vars

\* A step of the main thread other than the arrival of KeyboardInterrupt.
MainStep ==
    \/ Launch
    \/ Stagger
    \/ Join
    \/ SaveBegin
    \/ Drain
    \/ WriteReport
    \/ MainFinally

\* The same run under a fair scheduler: a thread that can take a step is
\* not held back for ever.  Every browser operation returns or raises, so
\* each step of a worker, with its bounded waits (10 s element waits, 12
\* login polls, 30 s upload wait, response_timeout), is one that ends.
\* KeyboardInterrupt may arrive or not.
FairSpec ==
    /\ Init /\ [][Next]_vars
    /\ WF_vars(MainStep)
    /\ \A w \in Workers : WF_vars(Worker(w))

\* ------------------------------------------------ functions called on their own
\* The remaining state stays as constructed while a function of the tester
\* is applied to inputs drawn from bounded sets.
runVars == <<results_queue, now, disk, orchVars, workerVars, histVars,
             test_prompts, file_path>>

\* The prompt lists selection is tried on.
SelectLists == {<<"A">>, <<"A", "B">>, <<"A", "B", "C">>, <<"B", "A", "B">>}

\* send_prompt_and_wait(driver, prompt) against a browser behaving as o.
CallSend ==
    /\ call = NoCall
    /\ \E ps \in SelectLists : \E i \in 1..Len(ps) : \E o \in SendOutcomes :
         /\ call' = [fn |-> "send_prompt_and_wait", prompt |-> ps[i], o |-> o]
         /\ ret' = Some(SendPromptAndWait(ps[i], o))
    /\ UNCHANGED runVars

\* Line 310 for each of the sessions SessionId(0) .. SessionId(MaxSelect - 1)
\* over one prompt list: ret maps the session identifier to its prompt.
CallSelect ==
    /\ call = NoCall
    /\ \E ps \in SelectLists :
         /\ call' = [fn |-> "select_prompt", prompts |-> ps]
         /\ ret' = Some([sid \in {SessionId(i) : i \in 0..(MaxSelect - 1)}
                           |-> SelectPrompt(ps, sid)])
    /\ UNCHANGED runVars

\* login(driver) against a browser behaving as o.
CallLogin ==
    /\ call = NoCall
    /\ \E o \in LoginOutcomes :
         /\ call' = [fn |-> "login", o |-> o]
         /\ ret' = Some(Login(o))
    /\ UNCHANGED runVars

\* upload_file(driver) with or without a configured file_path.
CallUpload ==
    /\ call = NoCall
    /\ \E path \in FilePaths : \E o \in UploadOutcomes :
         /\ call' = [fn |-> "upload_file", path |-> path, o |-> o]
         /\ ret' = Some(UploadFile(path, o))
    /\ UNCHANGED runVars

CallReturn ==
    /\ call # NoCall
    /\ call' = NoCall
    /\ ret' = None
    /\ UNCHANGED runVars

CallsNext ==
    \/ CallSend
    \/ CallSelect
    \/ CallLogin
    \/ CallUpload
    \/ CallReturn

SpecCalls == Init /\ [][CallsNext]_vars

\* ================================================================== claims
\* The thread has ended: run_chat_session returned or an exception left it.
Terminated(w) == wpc[w] \in {"done", "crashed"}

\* How many records of the sequence carry the session identifier.
Occ(seq, sid) == Cardinality({i \in DOMAIN seq : seq[i].session_id = sid})

\* The record is in some report file.
OnDisk(r) == \E f \in disk : \E j \in DOMAIN f.content : f.content[j] = r

Degraded(r) ==
    /\ r.prompt = None /\ r.response = None /\ r.response_time = None
    /\ r.errors # <<>>

\* C1 (as claimed): a worker that has terminated has put exactly one record
\* into the results queue, whichever path it took, a failed browser launch
\* included; and on each failure path that record has null prompt, response
\* and response_time and carries the failure reason.
C1_ExactlyOneRecord ==
    \A w \in Workers :
        Terminated(w) =>
            /\ Occ(appended, session_id[w]) = 1
            /\ fault[w] \in {"setup", "login", "upload", "send"} =>
                 \A i \in DOMAIN appended :
                     appended[i].session_id = session_id[w]
                         => Degraded(appended[i])

\* C2: at every moment the records in the queue or drained from it are at
\* most num_sessions, each has a session_id in 1..num_sessions, and no two
\* have the same session_id.
C2_AtMostNDistinctIds ==
    LET all == drained \o results_queue
    IN  /\ Len(all) <= NumSessions
        /\ \A i \in DOMAIN all : all[i].session_id \in 1..NumSessions
        /\ \A i, j \in DOMAIN all :
               all[i].session_id = all[j].session_id => i = j

C2_Witness ==
    /\ drained # <<>>
    /\ results_queue # <<>>
    /\ Len(drained) + Len(results_queue) = NumSessions

\* C3 (as claimed): when main has ended, normally or after an interrupt,
\* exactly one report has been written: one write, one file.
C3_OneReportPerRun ==
    mpc = "exited" => (writes = 1 /\ Cardinality(disk) = 1)

\* C4 (as claimed): when main has ended after an uninterrupted run, every
\* record a worker put into the queue is in a report file on disk.
C4_NoRecordLost ==
    (mpc = "exited" /\ intr = "none") =>
        \A i \in DOMAIN appended : OnDisk(appended[i])

\* C5 (as claimed): once any save_results call has begun, every launched
\* worker thread has ended.
C5_DrainAfterAllWorkers ==
    saves > 0 => \A w \in 1..launched : Terminated(w)

\* C5 (amended): once a save_results call has begun on a run whose launch
\* loop and joins were not interrupted, all num_sessions workers have been
\* launched and joined and every one of them has ended.
C5_DrainAfterJoin ==
    (saves > 0 /\ intr \notin {"launch", "join"}) =>
        /\ launched = NumSessions
        /\ joined = NumSessions
        /\ \A w \in Workers : Terminated(w)

C5_Witness ==
    /\ intr = "none"
    /\ mpc = "drain"
    /\ results # <<>>
    /\ results_queue # <<>>

\* C6: once an uninterrupted run_load_test has returned, all num_sessions
\* threads have been joined, save_results has been called, and every worker
\* that met no failure of its own before its record was put (whatever the
\* others met, its own quit raising included) has put its normal record.
C6_Isolation ==
    (intr = "none" /\ (mpc = "finally" \/ caller = "main")) =>
        /\ joined = NumSessions
        /\ saves >= 1
        /\ \A w \in Workers :
             /\ Terminated(w)
             /\ fault[w] \in {"none", "quit"} =>
                  \E i \in DOMAIN appended :
                      /\ appended[i].session_id = session_id[w]
                      /\ appended[i].prompt # None
                      /\ appended[i].response # None

C6_Witness ==
    /\ intr = "none"
    /\ mpc = "exited"
    /\ \E v, w \in Workers :
         /\ fault[v] \in {"setup", "login", "upload", "send"}
         /\ fault[w] = "none"
         /\ Occ(appended, session_id[w]) = 1

\* The worker is between its start and its end.
InFlight(w) == wpc[w] \notin {"idle", "done", "crashed"}

\* C7: after KeyboardInterrupt in the launch loop or the joins, main calls
\* save_results once, and when main has ended the report holds every record
\* that was in the queue when that call began; until then every worker in
\* flight can still take its next step.
C7_InterruptedRunSaves ==
    /\ (intr \in {"launch", "join"} /\ mpc = "exited") =>
          /\ saves = 1
          /\ writes = 1
          /\ \A i \in DOMAIN atDrain : OnDisk(atDrain[i])
    /\ (intr \in {"launch", "join"} /\ mpc # "exited") =>
          \A w \in Workers : InFlight(w) => ENABLED Worker(w)

C7_Witness ==
    /\ intr \in {"launch", "join"}
    /\ mpc = "exited"
    /\ atDrain # <<>>
    /\ Len(appended) > Len(atDrain)

\* C8: a worker quits its browser at most once; a worker that acquired a
\* browser and has ended has quit it exactly once; none quits a browser it
\* never acquired; and when a browser is quit the worker's record is
\* already in the queue.
C8_BrowserReleased ==
    \A w \in Workers :
        /\ quits[w] <= 1
        /\ (Terminated(w) /\ driver[w]) => quits[w] = 1
        /\ ~driver[w] => quits[w] = 0
        /\ quits[w] >= 1 => Occ(appended, session_id[w]) = 1

C8_Witness ==
    \E v, w \in Workers :
        /\ Terminated(v) /\ fault[v] = "login" /\ quits[v] = 1
        /\ Terminated(w) /\ fault[w] = "none" /\ quits[w] = 1

\* C9: when the response is not detected within response_timeout,
\* send_prompt_and_wait returns a result with a non-empty error list, a null
\* response and a null response_time, after clicking send exactly once.
C9_TimeoutIsAnError ==
    (call.fn = "send_prompt_and_wait" /\ call.o.stage = "timeout") =>
        /\ ret # None
        /\ ret[1].result.errors # <<>>
        /\ ret[1].result.response = None
        /\ ret[1].result.response_time = None
        /\ ret[1].clicks = 1

C9_Witness ==
    /\ call.fn = "send_prompt_and_wait"
    /\ call.o.stage = "timeout"
    /\ call.o.page = "clean"
    /\ Len(ret[1].result.errors) = 1

\* C10: session s is given prompts[s mod len(prompts)] (counting the list
\* from 0), so sessions k and k + len(prompts) are given the same prompt.
C10_PromptSelection ==
    call.fn = "select_prompt" =>
        LET ps == call.prompts
            given == ret[1]
        IN  /\ \A s \in DOMAIN given : given[s] = ps[(s % Len(ps)) + 1]
            /\ \A k \in DOMAIN given :
                   (k + Len(ps)) \in DOMAIN given
                       => given[k] = given[k + Len(ps)]

C10_Witness ==
    /\ call.fn = "select_prompt"
    /\ call.prompts = <<"A", "B">>
    /\ ret[1][1] = "B"
    /\ ret[1][3] = "B"
    /\ ret[1][2] = "A"

\* C11 (as claimed): with the prompt list ["A","B"], the sessions launched
\* with the identifiers 1, 2, 3 are given "A", "B", "A".
C11_FirstSessionFirstPrompt ==
    (call.fn = "select_prompt" /\ call.prompts = <<"A", "B">>) =>
        /\ ret[1][1] = "A"
        /\ ret[1][2] = "B"
        /\ ret[1][3] = "A"

\* C13: login returns a boolean and never raises; it returns true exactly
\* when the steps before the loop succeed and the landing-page condition
\* holds at one of the 12 polls, and then it has made no poll after the
\* first such one and has slept at most once per earlier poll; it returns
\* false without polling when an earlier step throws, and after all 12
\* polls when none succeeds.
C13_LoginReturnsAtFirstSuccess ==
    call.fn = "login" =>
        LET o == call.o
            r == ret[1]
        IN  /\ ret # None
            /\ r.ret \in BOOLEAN
            /\ r.ret = (o.pre /\ o.okAt \in 1..LoginPolls)
            /\ r.ret => (r.polls = o.okAt /\ r.sleeps <= o.okAt - 1)
            /\ ~o.pre => (r.polls = 0 /\ r.sleeps = 0)
            /\ (o.pre /\ o.okAt = 0) => r.polls = LoginPolls

C13_Witness ==
    /\ call.fn = "login"
    /\ call.o.pre /\ call.o.okAt = 3 /\ call.o.throwing
    /\ ret[1].ret /\ ret[1].polls = 3 /\ ret[1].sleeps = 2

\* C14 (as claimed): login sleeps between every two successive polls, after
\* a poll that evaluates false as after one that raises.
C14_SleepBetweenPolls ==
    (call.fn = "login" /\ call.o.pre) => ret[1].sleeps >= ret[1].polls - 1

\* C18 (as claimed): the response_time of a detected response is the time
\* from the click to the detection; the wait for the input box is not in it.
C18_LatencyFromSend ==
    (call.fn = "send_prompt_and_wait" /\ call.o.stage = "ok") =>
        ret[1].result.response_time = Some(call.o.tResp)

\* The record is an element of the sequence.
InSeq(r, seq) == \E i \in DOMAIN seq : seq[i] = r

\* C12: save_results removes from the queue every record it takes, so no
\* record it holds or has written is still in the queue, no record is in
\* the reports of two calls, and a call that found the queue empty, with
\* nothing put while it ran, wrote an empty list.
C12_NoDoubleCounting ==
    /\ \A i \in DOMAIN results : ~InSeq(results[i], results_queue)
    /\ \A k \in DOMAIN reports :
         /\ \A i \in DOMAIN reports[k].content :
              /\ ~InSeq(reports[k].content[i], results_queue)
              /\ \A m \in DOMAIN reports :
                   m # k => ~InSeq(reports[k].content[i], reports[m].content)
         /\ (reports[k].queued = <<>> /\ reports[k].late = 0)
               => reports[k].content = <<>>

C12_Witness ==
    /\ Len(reports) = 2
    /\ Len(reports[1].content) = NumSessions
    /\ reports[2].queued = <<>>
    /\ reports[2].content = <<>>

\* The orders in which a session's steps can follow one another, ended by
\* the step named last; a session on its way has taken some first steps of
\* one of them.
StepOrders ==
    {<<"setup_driver: raised">>,
     <<"setup_driver: returned", "login: False", "put", "quit">>,
     <<"setup_driver: returned", "login: True", "upload_file: False",
       "put", "quit">>,
     <<"setup_driver: returned", "login: True", "upload_file: True",
       "send prompt", "put", "quit">>}
StepPrefixes ==
    UNION {{SubSeq(t, 1, k) : k \in 0..Len(t)} : t \in StepOrders}
UploadWithoutFile ==
    \A o \in UploadOutcomes :
        UploadFile(None, o).ret /\ ~UploadFile(None, o).touched

\* C15: a worker's steps come in the order setup_driver, login, upload_file,
\* send, put, quit: login only after setup_driver returned, upload_file only
\* after login returned True, the prompt only after upload_file returned
\* True, the put before the quit, and at most one prompt is sent; without a
\* configured file_path upload_file returns True and leaves the browser alone.
C15_StepOrder ==
    /\ \A w \in Workers : trace[w] \in StepPrefixes
    /\ UploadWithoutFile

C15_Witness ==
    \E v, w \in Workers :
        /\ trace[w] = <<"setup_driver: returned", "login: True",
                        "upload_file: True", "send prompt", "put", "quit">>
        /\ trace[v] = <<"setup_driver: returned", "login: True",
                        "upload_file: False", "put", "quit">>

\* C16: on an uninterrupted run the list that run_load_test's save_results
\* call wrote is a permutation of the records the workers appended: each
\* appended record is in it once and it holds nothing else.
C16_DrainIsPermutation ==
    (intr = "none" /\ reports # <<>>) =>
        LET got == reports[1].content
        IN  /\ Len(got) = Len(appended)
            /\ \A i \in DOMAIN appended : InSeq(appended[i], got)
            /\ \A i, j \in DOMAIN got : got[i] = got[j] => i = j

C16_Witness ==
    /\ intr = "none"
    /\ reports # <<>>
    /\ Len(reports[1].content) = NumSessions
    /\ reports[1].content[1].session_id = NumSessions

\* C17 (as claimed): in every record a session puts on its success path,
\* response is null exactly when response_time is null, a record with a null
\* response or response_time has a non-empty error list, and a record with a
\* null prompt has a null response and a null response_time.
C17_NullFieldsHaveErrors ==
    call.fn = "send_prompt_and_wait" =>
        LET r == NormalRecord(SessionId(0), ret[1].result)
        IN  /\ (r.response = None) <=> (r.response_time = None)
            /\ (r.response = None \/ r.response_time = None) => r.errors # <<>>
            /\ r.prompt = None => (r.response = None /\ r.response_time = None)

\* C19: the threads are started one for each identifier 1, 2, ... in that
\* order, never more than num_sessions; each start is at least one second
\* after the previous one and the next start waits for the sleep that
\* follows a start; no thread is joined before num_sessions are started,
\* and a run that leaves the launch loop uninterrupted has started them all.
C19_StaggeredLaunch ==
    /\ launched <= NumSessions
    /\ \A w \in Workers :
         /\ w <= launched => (session_id[w] = w /\ wpc[w] # "idle")
         /\ w > launched => wpc[w] = "idle"
         /\ (w >= 2 /\ w <= launched) => launchedAt[w] >= launchedAt[w - 1] + 1
    /\ (mpc = "launch" /\ launched >= 1) => now >= launchedAt[launched] + 1
    /\ (joined > 0 \/ mpc = "join") => launched = NumSessions
    /\ (intr = "none" /\ mpc \notin {"launch", "sleep"}) => launched = NumSessions

C19_Witness ==
    /\ mpc = "join"
    /\ joined = 0
    /\ launched = NumSessions
    /\ launchedAt[NumSessions] = NumSessions - 1
    /\ \A w \in Workers : session_id[w] = w

\* C20 (as claimed): every launched worker terminates.  Nothing runs once
\* the process has exited, so by then each launched worker has terminated.
C20_EveryLaunchedWorkerTerminates ==
    mpc = "exited" => \A w \in Workers : w <= launched => Terminated(w)

\* C20 (amended): under fair scheduling every launched worker eventually
\* terminates or is abandoned by the exit of an interrupted process, and a
\* run that is never interrupted eventually has all num_sessions workers
\* terminated and joined, a report written and the process ended.
C20_FairRunTerminates ==
    /\ \A w \in Workers :
         [](wpc[w] # "idle"
              => <>(Terminated(w) \/ (mpc = "exited" /\ intr # "none")))
    /\ <>(\/ intr # "none"
          \/ /\ mpc = "exited"
             /\ joined = NumSessions
             /\ writes >= 1
             /\ \A w \in Workers : Terminated(w))

C20_Witness ==
    /\ intr = "none"
    /\ mpc = "exited"
    /\ joined = NumSessions
    /\ Len(reports) >= 1
    /\ \A w \in Workers : Terminated(w) /\ trace[w] # <<>>

====
